---- MODULE Spec2Model ----
(***************************************************************************)
(* Model of the shortcut task-processing daemon:                           *)
(*   - webapi.Handler.SubmitTask   (admission, non-blocking enqueue)       *)
(*   - daemon.Daemon               (TaskQueue, worker pool, Stop)          *)
(*   - metrics.Recorder            (counters and gauges)                   *)
(*   - database/clickhouse Service (not-processed store)                   *)
(*   - main.stop                   (shutdown sequencing)                   *)
(* One action per atomic step of a goroutine.  Goroutines: the main        *)
(* goroutine, one per HTTP request, one per worker.                        *)
(***************************************************************************)
EXTENDS Integers, Sequences, FiniteSets, Bags, TLC

(* ---- bounds of the model ---------------------------------------------- *)
\* main.go sets numWorkers = 5 and queueSize = 100; the model scales both
\* down and bounds the number of HTTP requests of a run.  queueSize is 2 so
\* that two tasks can wait in the queue at once, and MaxRequests exceeds
\* queueSize so that a request can find the queue full.
numWorkers == 2
queueSize == 2
MaxRequests == 3

\* The not-processed store taken on its own is exercised by NumCallers
\* goroutines that make at most MaxAdds AddNotProcessedTask calls in all.
NumCallers == 2
MaxAdds == 3

Workers == 1..numWorkers
Requests == 1..MaxRequests
Callers == 1..NumCallers

NoTask == "none"

(* ---- program state ---------------------------------------------------- *)
VARIABLES
  mainpc,          \* next statement of the main goroutine (main / stop / API.Stop / Daemon.Stop)
  isShuttingDown,  \* webapi.isShuttingDown (atomic.Bool)
  taskCounter,     \* Daemon.taskCounter
  TaskQueue,       \* buffered items of the channel Daemon.TaskQueue, oldest first
  queueClosed,     \* close(d.TaskQueue) has run
  baseCtxDone,     \* the context given to Daemon.Start (d.baseCtx) is cancelled
  workerCtxDone,   \* the context derived in Start for the worker loops is cancelled
  Wg,              \* counter of Daemon.Wg
  statusCounter,   \* Recorder.statusCounter, by label
  errorCounter,    \* Recorder.errorCounter, by label
  activeTasks,     \* Recorder.activeTasks gauge
  taskDuration,    \* number of samples observed by Recorder.taskDuration
  storage,         \* Service.storage, the not-processed set
  reqpc,           \* position of each SubmitTask handler
  reqTask,         \* the Task.ID a handler allocated
  resp,            \* the response a handler wrote
  wpc,             \* position of each worker goroutine
  wtask,           \* the task a worker holds
  taskCtx,         \* per worker: state of the deadline context of its execution
  panicked,        \* a goroutine panicked (send on a closed channel)
  finalReport,     \* what logFinalMetrics emitted
  mux,             \* Service.mux: 0 when unlocked, else the caller holding it
  callpc,          \* per caller of the store: "idle", inside Add, inside Get
  callarg,         \* per caller: the taskID of its running AddNotProcessedTask
  callsnap,        \* per caller: the map contents its running write started from
  callret,         \* per caller: what its last GetAllNotProcessedTasks returned
  \* ---- history variables (observation only, never read by the program) ----
  hAttempts,       \* per request: number of enqueue attempts made
  hEnqueued,       \* identities ever placed in TaskQueue, in order
  hRejected,       \* identities whose enqueue attempt found the queue full
  hDequeues,       \* number of receives by workers so far
  hInvoked,        \* bag of identities passed to GetSomething
  hTerminal,       \* identities whose execution has ended
  hRecorded,       \* bag of identities passed to AddNotProcessedTask
  hAtClose,        \* identities buffered in TaskQueue when it was closed
  hPhases,         \* shutdown phases in the order they started
  hForced,         \* the join took the time-bound branch
  hOutcomes,       \* bag of the results GetSomething returned
  hAdds            \* bag of identities whose AddNotProcessedTask call has returned

progVars == <<mainpc, isShuttingDown, taskCounter, TaskQueue, queueClosed,
              baseCtxDone, workerCtxDone, Wg, statusCounter, errorCounter,
              activeTasks, taskDuration, storage, reqpc, reqTask, resp,
              wpc, wtask, taskCtx, panicked, finalReport>>
callVars == <<mux, callpc, callarg, callsnap, callret, hAdds>>
histVars == <<hAttempts, hEnqueued, hRejected, hDequeues, hInvoked, hTerminal,
              hRecorded, hAtClose, hPhases, hForced, hOutcomes>>
vars == <<progVars, histVars, callVars>>

(* ---- helpers ---------------------------------------------------------- *)
SeqToSet(s) == {s[i] : i \in 1..Len(s)}

BagAdd(b, e) == b (+) SetToBag({e})

\* fmt.Sprintf("task-%d", nextID)
FormatTaskID(n) == "task-" \o ToString(n)

\* strconv.Itoa(statusCode), for the status codes the handlers use
Itoa(code) == ToString(code)

StatusOK == 200
StatusAccepted == 202
StatusServiceUnavailable == 503

\* an Inc that starts the vector afresh, forgetting the other labels
IncLabelFresh(vec, label) ==
  label :> (IF label \in DOMAIN vec THEN vec[label] + 1 ELSE 1)

\* CounterVec.WithLabelValues(label).Inc()
IncLabel(vec, label) ==
  IF label \in DOMAIN vec THEN [vec EXCEPT ![label] = @ + 1]
  ELSE vec @@ (label :> 1)

\* CounterVec.WithLabelValues(label).Write(metric); metric.GetCounter().GetValue()
GetLabel(vec, label) == IF label \in DOMAIN vec THEN vec[label] ELSE 0

\* a channel whose send finds room whatever is buffered
ChanCanSendPastCap(q) == TRUE

\* TaskQueue: make(chan *Task, queueSize).  A send finds room while fewer
\* than queueSize items are buffered.
ChanCanSend(q) == Len(q) < queueSize

\* a send that puts the item in front of the buffered ones
ChanSendFront(q, t) == <<t>> \o q

\* A send with room puts the item behind the buffered ones.
ChanSend(q, t) == Append(q, t)

\* a receive that leaves the delivered item in the buffer
ChanRestPeek(q) == q

\* A receive from the channel hands over the oldest buffered item and
\* removes it from the buffer.
ChanRest(q) == Tail(q)

\* a select without a default case: the send waits for room
SelectDefaultMissing == FALSE

\* SubmitTask's select has a default case, so the send never waits.
SelectDefault == TRUE

\* a handler that leaves status at http.StatusAccepted in the default case
EnqueueStatusAlwaysAccepted(sent) == StatusAccepted

\* SubmitTask: status := http.StatusAccepted, set to
\* http.StatusServiceUnavailable in the default case
EnqueueStatus(sent) == IF sent THEN StatusAccepted ELSE StatusServiceUnavailable

\* New, then the state before main calls d.Start.  The context main passes
\* to Start and to API.Stop is context.Background(), which is never
\* cancelled, so baseCtxDone stays FALSE unless an action cancels it.
Init ==
  /\ mainpc = "start"
  /\ isShuttingDown = FALSE
  /\ taskCounter = 0
  /\ TaskQueue = <<>>
  /\ queueClosed = FALSE
  /\ baseCtxDone = FALSE
  /\ workerCtxDone = FALSE
  /\ Wg = 0
  /\ statusCounter = <<>>
  /\ errorCounter = <<>>
  /\ activeTasks = 0
  /\ taskDuration = 0
  /\ storage = {}
  /\ reqpc = [r \in Requests |-> "new"]
  /\ reqTask = [r \in Requests |-> NoTask]
  /\ resp = [r \in Requests |-> 0]
  /\ wpc = [w \in Workers |-> "notstarted"]
  /\ wtask = [w \in Workers |-> NoTask]
  /\ taskCtx = [w \in Workers |-> "none"]
  /\ panicked = FALSE
  /\ finalReport = <<>>
  /\ hAttempts = [r \in Requests |-> 0]
  /\ hEnqueued = <<>>
  /\ hRejected = {}
  /\ hDequeues = 0
  /\ hInvoked = EmptyBag
  /\ hTerminal = {}
  /\ hRecorded = EmptyBag
  /\ hAtClose = {}
  /\ hPhases = <<>>
  /\ hForced = FALSE
  /\ hOutcomes = EmptyBag
  /\ mux = 0
  /\ callpc = [c \in Callers |-> "idle"]
  /\ callarg = [c \in Callers |-> NoTask]
  /\ callsnap = [c \in Callers |-> {}]
  /\ callret = [c \in Callers |-> {}]
  /\ hAdds = EmptyBag

(* ---- the main goroutine: main, stop, API.Stop, Daemon.Stop ------------ *)
\* Statement order of the main goroutine: main's Invoke body, then the
\* deferred stop(): api.Stop (announce, delay, server shutdown), then
\* d.Stop (cancel, close, drain, join, report).
\* a stop() that calls d.Stop before api.Stop
ProgramOrderDaemonFirst ==
  <<"start", "apistart", "serve", "cancel", "close", "drain", "join",
    "report", "announce", "delay", "shutdown", "done">>

\* a Stop that drains the queue before closing it
ProgramOrderDrainBeforeClose ==
  <<"start", "apistart", "serve", "announce", "delay", "shutdown",
    "cancel", "drain", "close", "join", "report", "done">>

ProgramOrder ==
  <<"start", "apistart", "serve", "announce", "delay", "shutdown",
    "cancel", "close", "drain", "join", "report", "done">>

After(p) ==
  LET i == CHOOSE j \in 1..Len(ProgramOrder) : ProgramOrder[j] = p
  IN ProgramOrder[i + 1]

\* The HTTP server accepts requests from api.Start until server.Shutdown returns.
ServerUp == mainpc \in {"serve", "announce", "delay", "shutdown"}

HandlerActive(r) == reqpc[r] \in {"alloc", "send"}

\* a Start whose loop launches one worker fewer than numWorkers
DaemonStartOneShort ==
  /\ mainpc = "start"
  /\ mainpc' = After("start")
  /\ wpc' = [w \in Workers |-> IF w < numWorkers THEN "wait" ELSE "notstarted"]
  /\ UNCHANGED <<isShuttingDown, taskCounter, TaskQueue, queueClosed,
                 baseCtxDone, workerCtxDone, Wg, statusCounter, errorCounter,
                 activeTasks, taskDuration, storage, reqpc, reqTask, resp,
                 wtask, taskCtx, panicked, finalReport, histVars, callVars>>

\* d.Start: d.baseCtx = ctx; ctx, d.workerCancel = WithCancel(ctx); go d.worker x numWorkers
DaemonStart ==
  /\ mainpc = "start"
  /\ mainpc' = After("start")
  /\ wpc' = [w \in Workers |-> "wait"]
  /\ UNCHANGED <<isShuttingDown, taskCounter, TaskQueue, queueClosed,
                 baseCtxDone, workerCtxDone, Wg, statusCounter, errorCounter,
                 activeTasks, taskDuration, storage, reqpc, reqTask, resp,
                 wtask, taskCtx, panicked, finalReport, histVars, callVars>>

\* api.Start: go server.ListenAndServe()
APIStart ==
  /\ mainpc = "apistart"
  /\ mainpc' = After("apistart")
  /\ UNCHANGED <<isShuttingDown, taskCounter, TaskQueue, queueClosed,
                 baseCtxDone, workerCtxDone, Wg, statusCounter, errorCounter,
                 activeTasks, taskDuration, storage, reqpc, reqTask, resp,
                 wpc, wtask, taskCtx, panicked, finalReport, histVars, callVars>>

\* main's select returns on sigCh (or ch.ErrCh); the deferred stop() begins
Signal ==
  /\ mainpc = "serve"
  /\ mainpc' = After("serve")
  /\ UNCHANGED <<isShuttingDown, taskCounter, TaskQueue, queueClosed,
                 baseCtxDone, workerCtxDone, Wg, statusCounter, errorCounter,
                 activeTasks, taskDuration, storage, reqpc, reqTask, resp,
                 wpc, wtask, taskCtx, panicked, finalReport, histVars, callVars>>

\* API.Stop: isShuttingDown.Store(true)
Announce ==
  /\ mainpc = "announce"
  /\ mainpc' = After("announce")
  /\ isShuttingDown' = TRUE
  /\ hPhases' = Append(hPhases, "announce")
  /\ UNCHANGED <<taskCounter, TaskQueue, queueClosed,
                 baseCtxDone, workerCtxDone, Wg, statusCounter, errorCounter,
                 activeTasks, taskDuration, storage, reqpc, reqTask, resp,
                 wpc, wtask, taskCtx, panicked, finalReport,
                 hAttempts, hEnqueued, hRejected, hDequeues, hInvoked,
                 hTerminal, hRecorded, hAtClose, hForced, hOutcomes, callVars>>

\* API.Stop: select { case <-time.After(_readinessTimeout): case <-ctx.Done(): }
DrainDelay ==
  /\ mainpc = "delay"
  /\ mainpc' = After("delay")
  /\ hPhases' = Append(hPhases, "delay")
  /\ UNCHANGED <<isShuttingDown, taskCounter, TaskQueue, queueClosed,
                 baseCtxDone, workerCtxDone, Wg, statusCounter, errorCounter,
                 activeTasks, taskDuration, storage, reqpc, reqTask, resp,
                 wpc, wtask, taskCtx, panicked, finalReport,
                 hAttempts, hEnqueued, hRejected, hDequeues, hInvoked,
                 hTerminal, hRecorded, hAtClose, hForced, hOutcomes, callVars>>

\* a Shutdown that returns without waiting for the running handlers
ServerShutdownNoWait ==
  /\ mainpc = "shutdown"
  /\ mainpc' = After("shutdown")
  /\ UNCHANGED <<isShuttingDown, taskCounter, TaskQueue, queueClosed,
                 baseCtxDone, workerCtxDone, Wg, statusCounter, errorCounter,
                 activeTasks, taskDuration, storage, reqpc, reqTask, resp,
                 wpc, wtask, taskCtx, panicked, finalReport, histVars, callVars>>

\* API.Stop: api.server.Shutdown(ctx) stops accepting and returns once no
\* handler is running, or at once with ctx.Err() when ctx is done.
ServerShutdown ==
  /\ mainpc = "shutdown"
  /\ baseCtxDone \/ \A r \in Requests : ~HandlerActive(r)
  /\ mainpc' = After("shutdown")
  /\ UNCHANGED hPhases
  /\ UNCHANGED <<isShuttingDown, taskCounter, TaskQueue, queueClosed,
                 baseCtxDone, workerCtxDone, Wg, statusCounter, errorCounter,
                 activeTasks, taskDuration, storage, reqpc, reqTask, resp,
                 wpc, wtask, taskCtx, panicked, finalReport,
                 hAttempts, hEnqueued, hRejected, hDequeues, hInvoked,
                 hTerminal, hRecorded, hAtClose, hForced, hOutcomes, callVars>>

\* d.workerCancel is set by Start only; New leaves the field nil
workerCancelNil == \A w \in Workers : wpc[w] = "notstarted"

\* Daemon.Stop: d.workerCancel().  Calling a nil func panics (nil pointer
\* dereference) and Stop goes no further.
WorkerCancel ==
  /\ mainpc = "cancel"
  /\ IF workerCancelNil
       THEN /\ panicked' = TRUE
            /\ mainpc' = "panic"
            /\ UNCHANGED <<workerCtxDone, hPhases>>
       ELSE /\ mainpc' = After("cancel")
            /\ workerCtxDone' = TRUE
            /\ hPhases' = Append(hPhases, "cancel")
            /\ UNCHANGED panicked
  /\ UNCHANGED <<isShuttingDown, taskCounter, TaskQueue, queueClosed,
                 baseCtxDone, Wg, statusCounter, errorCounter,
                 activeTasks, taskDuration, storage, reqpc, reqTask, resp,
                 wpc, wtask, taskCtx, finalReport,
                 hAttempts, hEnqueued, hRejected, hDequeues, hInvoked,
                 hTerminal, hRecorded, hAtClose, hForced, hOutcomes, callVars>>

\* Daemon.Stop: close(d.TaskQueue).  Closing a channel that is already
\* closed panics ("close of closed channel") and Stop goes no further.
CloseQueue ==
  /\ mainpc = "close"
  /\ IF queueClosed
       THEN /\ panicked' = TRUE
            /\ mainpc' = "panic"
            /\ UNCHANGED <<queueClosed, hAtClose, hPhases>>
       ELSE /\ mainpc' = After("close")
            /\ queueClosed' = TRUE
            /\ hAtClose' = SeqToSet(TaskQueue)
            /\ hPhases' = Append(hPhases, "close")
            /\ UNCHANGED panicked
  /\ UNCHANGED <<isShuttingDown, taskCounter, TaskQueue,
                 baseCtxDone, workerCtxDone, Wg, statusCounter, errorCounter,
                 activeTasks, taskDuration, storage, reqpc, reqTask, resp,
                 wpc, wtask, taskCtx, finalReport,
                 hAttempts, hEnqueued, hRejected, hDequeues, hInvoked,
                 hTerminal, hRecorded, hForced, hOutcomes, callVars>>

\* Service.AddNotProcessedTask: s.storage[taskID] = struct{}{}
AddNotProcessedTask(store, taskID) == store \cup {taskID}

\* Service.GetAllNotProcessedTasks: the keys of s.storage
GetAllNotProcessedTasks(store) == store

\* a drain that also observes a duration sample for the task it records
moveNotProcessedTaskObserved ==
  /\ mainpc = "drain"
  /\ TaskQueue # <<>>
  /\ TaskQueue' = Tail(TaskQueue)
  /\ storage' = storage \cup {Head(TaskQueue)}
  /\ hRecorded' = BagAdd(hRecorded, Head(TaskQueue))
  /\ taskDuration' = taskDuration + 1
  /\ UNCHANGED <<mainpc, isShuttingDown, taskCounter, queueClosed,
                 baseCtxDone, workerCtxDone, Wg, statusCounter, errorCounter,
                 activeTasks, reqpc, reqTask, resp,
                 wpc, wtask, taskCtx, panicked, finalReport,
                 hAttempts, hEnqueued, hRejected, hDequeues, hInvoked,
                 hTerminal, hAtClose, hPhases, hForced, hOutcomes, callVars>>

\* moveNotProcessedTasksToPersistentQueue, one iteration of
\* for task := range d.TaskQueue { d.Ch.AddNotProcessedTask(task.ID) }
\* (the receive and the call that follows it, taken as one step)
moveNotProcessedTask ==
  /\ mainpc = "drain"
  /\ TaskQueue # <<>>
  /\ TaskQueue' = ChanRest(TaskQueue)
  /\ storage' = AddNotProcessedTask(storage, Head(TaskQueue))
  /\ hRecorded' = BagAdd(hRecorded, Head(TaskQueue))
  /\ UNCHANGED <<mainpc, isShuttingDown, taskCounter, queueClosed,
                 baseCtxDone, workerCtxDone, Wg, statusCounter, errorCounter,
                 activeTasks, taskDuration, reqpc, reqTask, resp,
                 wpc, wtask, taskCtx, panicked, finalReport,
                 hAttempts, hEnqueued, hRejected, hDequeues, hInvoked,
                 hTerminal, hAtClose, hPhases, hForced, hOutcomes, callVars>>

\* a drain whose loop ends as soon as the channel is closed, whatever is
\* still buffered
DrainEndEarly ==
  /\ mainpc = "drain"
  /\ queueClosed
  /\ mainpc' = After("drain")
  /\ hPhases' = Append(hPhases, "drained")
  /\ UNCHANGED <<isShuttingDown, taskCounter, TaskQueue, queueClosed,
                 baseCtxDone, workerCtxDone, Wg, statusCounter, errorCounter,
                 activeTasks, taskDuration, storage, reqpc, reqTask, resp,
                 wpc, wtask, taskCtx, panicked, finalReport,
                 hAttempts, hEnqueued, hRejected, hDequeues, hInvoked,
                 hTerminal, hRecorded, hAtClose, hForced, hOutcomes, callVars>>

\* moveNotProcessedTasksToPersistentQueue: the range loop ends, the channel
\* being closed and empty
DrainEnd ==
  /\ mainpc = "drain"
  /\ queueClosed
  /\ TaskQueue = <<>>
  /\ mainpc' = After("drain")
  /\ hPhases' = Append(hPhases, "drained")
  /\ UNCHANGED <<isShuttingDown, taskCounter, TaskQueue, queueClosed,
                 baseCtxDone, workerCtxDone, Wg, statusCounter, errorCounter,
                 activeTasks, taskDuration, storage, reqpc, reqTask, resp,
                 wpc, wtask, taskCtx, panicked, finalReport,
                 hAttempts, hEnqueued, hRejected, hDequeues, hInvoked,
                 hTerminal, hRecorded, hAtClose, hForced, hOutcomes, callVars>>

\* Daemon.Stop: go func() { d.Wg.Wait(); close(doneCh) }(); select case <-doneCh
JoinDone ==
  /\ mainpc = "join"
  /\ Wg = 0
  /\ mainpc' = After("join")
  /\ hPhases' = Append(hPhases, "join")
  /\ UNCHANGED <<isShuttingDown, taskCounter, TaskQueue, queueClosed,
                 baseCtxDone, workerCtxDone, Wg, statusCounter, errorCounter,
                 activeTasks, taskDuration, storage, reqpc, reqTask, resp,
                 wpc, wtask, taskCtx, panicked, finalReport,
                 hAttempts, hEnqueued, hRejected, hDequeues, hInvoked,
                 hTerminal, hRecorded, hAtClose, hForced, hOutcomes, callVars>>

\* a Stop that on the time bound records the tasks the workers still hold as
\* not processed
JoinTimeoutRecords ==
  /\ mainpc = "join"
  /\ Wg > 0
  /\ mainpc' = After("join")
  /\ hForced' = TRUE
  /\ hPhases' = Append(hPhases, "join")
  /\ storage' = storage \cup ({wtask[w] : w \in Workers} \ {NoTask})
  /\ UNCHANGED <<isShuttingDown, taskCounter, TaskQueue, queueClosed,
                 baseCtxDone, workerCtxDone, Wg, statusCounter, errorCounter,
                 activeTasks, taskDuration, reqpc, reqTask, resp,
                 wpc, wtask, taskCtx, panicked, finalReport,
                 hAttempts, hEnqueued, hRejected, hDequeues, hInvoked,
                 hTerminal, hRecorded, hAtClose, hOutcomes, callVars>>

\* a Stop whose select has no time.After case
JoinTimeoutMissing ==
  /\ FALSE
  /\ UNCHANGED vars

\* Daemon.Stop: select case <-time.After(10 * time.Minute): "force exit after timeout".
\* The timer wins only while Wg.Wait has not returned, that is while Wg > 0.
JoinTimeout ==
  /\ mainpc = "join"
  /\ Wg > 0
  /\ mainpc' = After("join")
  /\ hForced' = TRUE
  /\ hPhases' = Append(hPhases, "join")
  /\ UNCHANGED <<isShuttingDown, taskCounter, TaskQueue, queueClosed,
                 baseCtxDone, workerCtxDone, Wg, statusCounter, errorCounter,
                 activeTasks, taskDuration, storage, reqpc, reqTask, resp,
                 wpc, wtask, taskCtx, panicked, finalReport,
                 hAttempts, hEnqueued, hRejected, hDequeues, hInvoked,
                 hTerminal, hRecorded, hAtClose, hOutcomes, callVars>>

\* Recorder.GetUnavailableTotal
GetUnavailableTotal == GetLabel(statusCounter, "503")

\* Recorder.GetSubmittedTasksTotal (metrics.go):
\* statusCounter.WithLabelValues("202"), the label SubmitTask increments when
\* it accepts a request.  (The earlier Recorder that defines
\* IncSubmittedTasksTotal reads the label "200" here.)
GetSubmittedTasksTotal == GetLabel(statusCounter, "202")

\* Recorder.GetTaskErrorsTotal
GetTaskErrorsTotal == GetLabel(errorCounter, "error")

\* Recorder.GetTimeoutsTotal
GetTimeoutsTotal == GetLabel(errorCounter, "timeout")

\* Recorder.GetActiveTasksTotal
GetActiveTasksTotal == activeTasks

\* Recorder.GetMetrics plus the two keys logFinalMetrics adds.  Left out:
\* mem_used_bytes (a gauge of the runtime) and processed_tasks_total (a counter
\* that neither SubmitTask nor the daemon writes).
GetMetrics ==
  [active_tasks |-> GetActiveTasksTotal,
   unavailable_total |-> GetUnavailableTotal,
   submitted_tasks_total |-> GetSubmittedTasksTotal,
   task_errors_total |-> GetTaskErrorsTotal,
   timeouts_total |-> GetTimeoutsTotal,
   not_processed_tasks_count |-> Cardinality(GetAllNotProcessedTasks(storage)),
   not_processed_tasks |-> GetAllNotProcessedTasks(storage)]

\* Daemon.Stop: the logger.Info lines and d.logFinalMetrics()
logFinalMetrics ==
  /\ mainpc = "report"
  /\ mainpc' = After("report")
  /\ finalReport' = GetMetrics
  /\ hPhases' = Append(hPhases, "report")
  /\ UNCHANGED <<isShuttingDown, taskCounter, TaskQueue, queueClosed,
                 baseCtxDone, workerCtxDone, Wg, statusCounter, errorCounter,
                 activeTasks, taskDuration, storage, reqpc, reqTask, resp,
                 wpc, wtask, taskCtx, panicked,
                 hAttempts, hEnqueued, hRejected, hDequeues, hInvoked,
                 hTerminal, hRecorded, hAtClose, hForced, hOutcomes, callVars>>

(* ---- HTTP request goroutines: readinessHandler, Handler.SubmitTask ---- *)
\* a readiness probe that also reports a full queue as unhealthy
readinessHandlerQueueAware ==
  IF isShuttingDown \/ Len(TaskQueue) >= queueSize
    THEN StatusServiceUnavailable ELSE StatusOK

\* readinessHandler: the status it writes in the current state:
\* if isShuttingDown.Load() { 503 "shutting down" } else { 200 "ok" }
readinessHandler ==
  IF isShuttingDown THEN StatusServiceUnavailable ELSE StatusOK

\* SubmitTask without the isShuttingDown gate
SubmitCheckNoGate(r) ==
  /\ reqpc[r] = "new"
  /\ \A q \in Requests : q < r => reqpc[q] # "new"
  /\ ServerUp
  /\ reqpc' = [reqpc EXCEPT ![r] = "alloc"]
  /\ UNCHANGED <<mainpc, isShuttingDown, taskCounter, TaskQueue, queueClosed,
                 baseCtxDone, workerCtxDone, Wg, statusCounter, errorCounter,
                 activeTasks, taskDuration, storage, reqTask, resp,
                 wpc, wtask, taskCtx, panicked, finalReport, histVars, callVars>>

\* The server dispatches request r to SubmitTask (requests are numbered in
\* dispatch order), which begins with
\* if isShuttingDown.Load() { http.Error(w, "shutting down", 503); return }
SubmitCheck(r) ==
  /\ reqpc[r] = "new"
  /\ \A q \in Requests : q < r => reqpc[q] # "new"
  /\ ServerUp
  /\ IF isShuttingDown
       THEN /\ resp' = [resp EXCEPT ![r] = StatusServiceUnavailable]
            /\ reqpc' = [reqpc EXCEPT ![r] = "done"]
       ELSE /\ reqpc' = [reqpc EXCEPT ![r] = "alloc"]
            /\ UNCHANGED resp
  /\ UNCHANGED <<mainpc, isShuttingDown, taskCounter, TaskQueue, queueClosed,
                 baseCtxDone, workerCtxDone, Wg, statusCounter, errorCounter,
                 activeTasks, taskDuration, storage, reqTask,
                 wpc, wtask, taskCtx, panicked, finalReport, histVars, callVars>>

\* a NewTaskID that reads and writes taskCounter in two steps: the update of
\* a handler running at the same time is lost and both get the same number
NewTaskIDLostUpdate(r) ==
  /\ reqpc[r] = "alloc"
  /\ LET nextID == IF \E q \in Requests : q # r /\ reqpc[q] = "send"
                     THEN taskCounter ELSE taskCounter + 1
     IN /\ taskCounter' = nextID
        /\ reqTask' = [reqTask EXCEPT ![r] = FormatTaskID(nextID)]
  /\ reqpc' = [reqpc EXCEPT ![r] = "send"]
  /\ UNCHANGED <<mainpc, isShuttingDown, TaskQueue, queueClosed,
                 baseCtxDone, workerCtxDone, Wg, statusCounter, errorCounter,
                 activeTasks, taskDuration, storage, resp,
                 wpc, wtask, taskCtx, panicked, finalReport, histVars, callVars>>

\* Daemon.NewTaskID, called by SubmitTask: task := &daemon.Task{ID: h.daemon.NewTaskID()}
\* nextID := atomic.AddUint64(&d.taskCounter, 1); fmt.Sprintf("task-%d", nextID)
NewTaskID(r) ==
  /\ reqpc[r] = "alloc"
  /\ taskCounter' = taskCounter + 1
  /\ reqTask' = [reqTask EXCEPT ![r] = FormatTaskID(taskCounter + 1)]
  /\ reqpc' = [reqpc EXCEPT ![r] = "send"]
  /\ UNCHANGED <<mainpc, isShuttingDown, TaskQueue, queueClosed,
                 baseCtxDone, workerCtxDone, Wg, statusCounter, errorCounter,
                 activeTasks, taskDuration, storage, resp,
                 wpc, wtask, taskCtx, panicked, finalReport, histVars, callVars>>

\* Recorder.IncHTTPResponseStatus
IncHTTPResponseStatus(statusCode) == IncLabel(statusCounter, Itoa(statusCode))

\* SubmitTask: select { case h.daemon.TaskQueue <- task: default: 503 },
\* then IncHTTPResponseStatus(status) and the response.  A send on a closed
\* channel panics, also inside a select with a default case.  The handler
\* returns and its local task goes out of scope.
SubmitEnqueue(r) ==
  /\ reqpc[r] = "send"
  /\ queueClosed \/ ChanCanSend(TaskQueue) \/ SelectDefault
  /\ reqpc' = [reqpc EXCEPT ![r] = "done"]
  /\ reqTask' = [reqTask EXCEPT ![r] = NoTask]
  /\ hAttempts' = [hAttempts EXCEPT ![r] = @ + 1]
  /\ IF queueClosed
       THEN /\ panicked' = TRUE
            /\ UNCHANGED <<TaskQueue, statusCounter, resp, hEnqueued, hRejected>>
       ELSE IF ChanCanSend(TaskQueue)
         THEN /\ TaskQueue' = ChanSend(TaskQueue, reqTask[r])
              /\ hEnqueued' = Append(hEnqueued, reqTask[r])
              /\ statusCounter' = IncHTTPResponseStatus(EnqueueStatus(TRUE))
              /\ resp' = [resp EXCEPT ![r] = EnqueueStatus(TRUE)]
              /\ UNCHANGED <<panicked, hRejected>>
         ELSE /\ statusCounter' = IncHTTPResponseStatus(EnqueueStatus(FALSE))
              /\ resp' = [resp EXCEPT ![r] = EnqueueStatus(FALSE)]
              /\ hRejected' = hRejected \cup {reqTask[r]}
              /\ UNCHANGED <<TaskQueue, hEnqueued, panicked>>
  /\ UNCHANGED <<mainpc, isShuttingDown, taskCounter, queueClosed,
                 baseCtxDone, workerCtxDone, Wg, errorCounter,
                 activeTasks, taskDuration, storage,
                 wpc, wtask, taskCtx, finalReport,
                 hDequeues, hInvoked,
                 hTerminal, hRecorded, hAtClose, hPhases, hForced, hOutcomes, callVars>>

(* ---- worker goroutines: Daemon.worker, processingWithTimeout ---------- *)
\* worker: select case <-ctx.Done(): return
WorkerCtxDone(w) ==
  /\ wpc[w] = "wait"
  /\ workerCtxDone
  /\ wpc' = [wpc EXCEPT ![w] = "exited"]
  /\ UNCHANGED <<mainpc, isShuttingDown, taskCounter, TaskQueue, queueClosed,
                 baseCtxDone, workerCtxDone, Wg, statusCounter, errorCounter,
                 activeTasks, taskDuration, storage, reqpc, reqTask, resp,
                 wtask, taskCtx, panicked, finalReport, histVars, callVars>>

\* worker: select case task, ok := <-d.TaskQueue with ok = true.  A select
\* with several ready cases takes any of them, so this is enabled whatever
\* the state of ctx; a closed channel still delivers its buffered items.
WorkerReceive(w) ==
  /\ wpc[w] = "wait"
  /\ TaskQueue # <<>>
  /\ wtask' = [wtask EXCEPT ![w] = Head(TaskQueue)]
  /\ TaskQueue' = ChanRest(TaskQueue)
  /\ wpc' = [wpc EXCEPT ![w] = "dequeued"]
  /\ hDequeues' = hDequeues + 1
  /\ UNCHANGED <<mainpc, isShuttingDown, taskCounter, queueClosed,
                 baseCtxDone, workerCtxDone, Wg, statusCounter, errorCounter,
                 activeTasks, taskDuration, storage, reqpc, reqTask, resp,
                 taskCtx, panicked, finalReport,
                 hAttempts, hEnqueued, hRejected, hInvoked,
                 hTerminal, hRecorded, hAtClose, hPhases, hForced, hOutcomes, callVars>>

\* worker: select case task, ok := <-d.TaskQueue with ok = false: return
WorkerQueueClosed(w) ==
  /\ wpc[w] = "wait"
  /\ queueClosed
  /\ TaskQueue = <<>>
  /\ wpc' = [wpc EXCEPT ![w] = "exited"]
  /\ UNCHANGED <<mainpc, isShuttingDown, taskCounter, TaskQueue, queueClosed,
                 baseCtxDone, workerCtxDone, Wg, statusCounter, errorCounter,
                 activeTasks, taskDuration, storage, reqpc, reqTask, resp,
                 wtask, taskCtx, panicked, finalReport, histVars, callVars>>

\* worker: d.Metrics.Recorder.AddActiveTasks(1)
AddActiveTasks(w) ==
  /\ wpc[w] = "dequeued"
  /\ activeTasks' = activeTasks + 1
  /\ wpc' = [wpc EXCEPT ![w] = "counted"]
  /\ UNCHANGED <<mainpc, isShuttingDown, taskCounter, TaskQueue, queueClosed,
                 baseCtxDone, workerCtxDone, Wg, statusCounter, errorCounter,
                 taskDuration, storage, reqpc, reqTask, resp,
                 wtask, taskCtx, panicked, finalReport, histVars, callVars>>

\* context.WithTimeout(parent, 3s): the new context is live unless its
\* parent is already cancelled
WithTimeout(parentDone) == IF parentDone THEN "Canceled" ELSE "live"

\* a worker that starts the execution without d.Wg.Add(1)
WgAddMissing(w) ==
  /\ wpc[w] = "counted"
  /\ wpc' = [wpc EXCEPT ![w] = "calling"]
  /\ taskCtx' = [taskCtx EXCEPT ![w] = WithTimeout(baseCtxDone)]
  /\ hInvoked' = BagAdd(hInvoked, wtask[w])
  /\ UNCHANGED <<mainpc, isShuttingDown, taskCounter, TaskQueue, queueClosed,
                 baseCtxDone, workerCtxDone, Wg, statusCounter, errorCounter,
                 activeTasks, taskDuration, storage, reqpc, reqTask, resp,
                 wtask, panicked, finalReport,
                 hAttempts, hEnqueued, hRejected, hDequeues,
                 hTerminal, hRecorded, hAtClose, hPhases, hForced, hOutcomes, callVars>>

\* worker: d.Wg.Add(1); d.processingWithTimeout(d.baseCtx, ...), which derives
\* ctx, cancel := context.WithTimeout(ctx, 3s) from the context it is given,
\* d.baseCtx (the context Start received, not the one Start derived for the
\* worker loops), and whose goroutine calls
\* apiCaller.GetSomething(ctx, task.ID, workerID)
WgAdd(w) ==
  /\ wpc[w] = "counted"
  /\ Wg' = Wg + 1
  /\ wpc' = [wpc EXCEPT ![w] = "calling"]
  /\ taskCtx' = [taskCtx EXCEPT ![w] = WithTimeout(baseCtxDone)]
  /\ hInvoked' = BagAdd(hInvoked, wtask[w])
  /\ UNCHANGED <<mainpc, isShuttingDown, taskCounter, TaskQueue, queueClosed,
                 baseCtxDone, workerCtxDone, statusCounter, errorCounter,
                 activeTasks, taskDuration, storage, reqpc, reqTask, resp,
                 wtask, panicked, finalReport,
                 hAttempts, hEnqueued, hRejected, hDequeues,
                 hTerminal, hRecorded, hAtClose, hPhases, hForced, hOutcomes, callVars>>

\* one deadline shared by the executions: when it fires, every running
\* execution's context is done
DeadlineFiresShared(w) ==
  /\ wpc[w] = "calling"
  /\ taskCtx[w] = "live"
  /\ taskCtx' = [v \in Workers |->
                   IF taskCtx[v] = "live" THEN "DeadlineExceeded" ELSE taskCtx[v]]
  /\ UNCHANGED <<mainpc, isShuttingDown, taskCounter, TaskQueue, queueClosed,
                 baseCtxDone, workerCtxDone, Wg, statusCounter, errorCounter,
                 activeTasks, taskDuration, storage, reqpc, reqTask, resp,
                 wpc, wtask, panicked, finalReport, histVars, callVars>>

\* The timer of context.WithTimeout(ctx, 3s) fires while the call is running:
\* the task context is done with DeadlineExceeded.  Only this worker's
\* context is touched.
DeadlineFires(w) ==
  /\ wpc[w] = "calling"
  /\ taskCtx[w] = "live"
  /\ taskCtx' = [taskCtx EXCEPT ![w] = "DeadlineExceeded"]
  /\ UNCHANGED <<mainpc, isShuttingDown, taskCounter, TaskQueue, queueClosed,
                 baseCtxDone, workerCtxDone, Wg, statusCounter, errorCounter,
                 activeTasks, taskDuration, storage, reqpc, reqTask, resp,
                 wpc, wtask, panicked, finalReport, histVars, callVars>>

\* What GetSomething(ctx, taskID, workerID) returns.  The External Capability
\* returns success (nil) or a *CustomError while its context is live, and
\* returns ctx.Err() promptly once the context is done.
Results(ctx) ==
  IF ctx = "live" THEN {"nil", "CustomError"} ELSE {ctx}

\* a check that takes every error for a *CustomError
IsCustomErrorAny(err) == err # "nil"

\* processingWithTimeout: errors.As(err, &customErr)
IsCustomError(err) == err = "CustomError"

\* a check that recognises context.Canceled only
IsTimeoutErrorCanceledOnly(err) == err = "Canceled"

\* processingWithTimeout: errors.Is(err, DeadlineExceeded) || errors.Is(err, Canceled)
IsTimeoutError(err) == err \in {"DeadlineExceeded", "Canceled"}

\* a success counted under the label of the accepted responses
IncSubmittedTasksTotalAs202 == IncLabel(statusCounter, "202")

\* Recorder.IncSubmittedTasksTotal: statusCounter.WithLabelValues("200").Inc()
IncSubmittedTasksTotal == IncLabel(statusCounter, "200")

\* a goroutine that signals errChan / doneProcessing without having
\* incremented the counter of the result
GetSomethingReturnUncounted(w, err) ==
  /\ wpc[w] = "calling"
  /\ err \in Results(taskCtx[w])
  /\ wpc' = [wpc EXCEPT ![w] = "deferred"]
  /\ taskCtx' = [taskCtx EXCEPT ![w] = "none"]
  /\ taskDuration' = taskDuration + 1
  /\ activeTasks' = activeTasks - 1
  /\ hOutcomes' = BagAdd(hOutcomes, err)
  /\ UNCHANGED <<mainpc, isShuttingDown, taskCounter, TaskQueue, queueClosed,
                 baseCtxDone, workerCtxDone, Wg, statusCounter, errorCounter,
                 storage, reqpc, reqTask, resp,
                 wtask, panicked, finalReport,
                 hAttempts, hEnqueued, hRejected, hDequeues, hInvoked,
                 hTerminal, hRecorded, hAtClose, hPhases, hForced, callVars>>

\* a processingWithTimeout whose DecActiveTasks is not deferred: it runs on
\* the success path only
GetSomethingReturnDecOnSuccess(w, err) ==
  /\ wpc[w] = "calling"
  /\ err \in Results(taskCtx[w])
  /\ wpc' = [wpc EXCEPT ![w] = "deferred"]
  /\ taskCtx' = [taskCtx EXCEPT ![w] = "none"]
  /\ IF err # "nil"
       THEN /\ errorCounter' =
                 LET e1 == IF err = "CustomError"
                             THEN IncLabel(errorCounter, "error")
                             ELSE errorCounter
                 IN IF err \in {"DeadlineExceeded", "Canceled"}
                      THEN IncLabel(e1, "timeout") ELSE e1
            /\ UNCHANGED <<statusCounter, activeTasks>>
       ELSE /\ statusCounter' = IncLabel(statusCounter, "200")
            /\ activeTasks' = activeTasks - 1
            /\ UNCHANGED errorCounter
  /\ taskDuration' = taskDuration + 1
  /\ hOutcomes' = BagAdd(hOutcomes, err)
  /\ UNCHANGED <<mainpc, isShuttingDown, taskCounter, TaskQueue, queueClosed,
                 baseCtxDone, workerCtxDone, Wg,
                 storage, reqpc, reqTask, resp,
                 wtask, panicked, finalReport,
                 hAttempts, hEnqueued, hRejected, hDequeues, hInvoked,
                 hTerminal, hRecorded, hAtClose, hPhases, hForced, callVars>>

\* a processingWithTimeout that reports a failed execution to the caller that
\* admitted the task, overwriting the response
GetSomethingReturnPropagates(w, err) ==
  /\ wpc[w] = "calling"
  /\ err \in Results(taskCtx[w])
  /\ wpc' = [wpc EXCEPT ![w] = "deferred"]
  /\ taskCtx' = [taskCtx EXCEPT ![w] = "none"]
  /\ resp' = [r \in Requests |->
                IF err # "nil" /\ resp[r] = StatusAccepted
                  THEN StatusServiceUnavailable ELSE resp[r]]
  /\ taskDuration' = taskDuration + 1
  /\ activeTasks' = activeTasks - 1
  /\ UNCHANGED <<mainpc, isShuttingDown, taskCounter, TaskQueue, queueClosed,
                 baseCtxDone, workerCtxDone, Wg, statusCounter, errorCounter,
                 storage, reqpc, reqTask,
                 wtask, panicked, finalReport, histVars, callVars>>

\* processingWithTimeout: the goroutine classifies the result, increments
\* the counters and signals errChan / doneProcessing; the worker's select
\* (which waits on these two channels only) returns and the deferred
\* ObserveTaskDuration(time.Since(startedAt)), DecActiveTasks(1) and cancel() run
GetSomethingReturn(w, err) ==
  /\ wpc[w] = "calling"
  /\ err \in Results(taskCtx[w])
  /\ wpc' = [wpc EXCEPT ![w] = "deferred"]
  /\ taskCtx' = [taskCtx EXCEPT ![w] = "none"]
  /\ IF err # "nil"
       THEN /\ errorCounter' =
                 LET e1 == IF IsCustomError(err)
                             THEN IncLabel(errorCounter, "error")
                             ELSE errorCounter
                 IN IF IsTimeoutError(err) THEN IncLabel(e1, "timeout") ELSE e1
            /\ UNCHANGED statusCounter
       ELSE /\ statusCounter' = IncSubmittedTasksTotal
            /\ UNCHANGED errorCounter
  /\ taskDuration' = taskDuration + 1
  /\ activeTasks' = activeTasks - 1
  /\ hOutcomes' = BagAdd(hOutcomes, err)
  /\ UNCHANGED <<mainpc, isShuttingDown, taskCounter, TaskQueue, queueClosed,
                 baseCtxDone, workerCtxDone, Wg,
                 storage, reqpc, reqTask, resp,
                 wtask, panicked, finalReport,
                 hAttempts, hEnqueued, hRejected, hDequeues, hInvoked,
                 hTerminal, hRecorded, hAtClose, hPhases, hForced, callVars>>

\* a processingWithTimeout that never returns to the worker loop
WgDoneBlocks(w) ==
  /\ FALSE
  /\ UNCHANGED vars

\* processingWithTimeout putting the task back into the queue when it ends
WgDoneRequeue(w) ==
  /\ wpc[w] = "deferred"
  /\ Wg' = Wg - 1
  /\ wpc' = [wpc EXCEPT ![w] = "wait"]
  /\ hTerminal' = hTerminal \cup {wtask[w]}
  /\ TaskQueue' = IF ChanCanSend(TaskQueue) /\ ~queueClosed
                    THEN Append(TaskQueue, wtask[w]) ELSE TaskQueue
  /\ wtask' = [wtask EXCEPT ![w] = NoTask]
  /\ UNCHANGED <<mainpc, isShuttingDown, taskCounter, queueClosed,
                 baseCtxDone, workerCtxDone, statusCounter, errorCounter,
                 activeTasks, taskDuration, storage, reqpc, reqTask, resp,
                 taskCtx, panicked, finalReport,
                 hAttempts, hEnqueued, hRejected, hDequeues, hInvoked,
                 hRecorded, hAtClose, hPhases, hForced, hOutcomes, callVars>>

\* processingWithTimeout: deferred d.Wg.Done(); the worker loop goes back to its select
WgDone(w) ==
  /\ wpc[w] = "deferred"
  /\ Wg' = Wg - 1
  /\ wpc' = [wpc EXCEPT ![w] = "wait"]
  /\ hTerminal' = hTerminal \cup {wtask[w]}
  /\ wtask' = [wtask EXCEPT ![w] = NoTask]
  /\ UNCHANGED <<mainpc, isShuttingDown, taskCounter, TaskQueue, queueClosed,
                 baseCtxDone, workerCtxDone, statusCounter, errorCounter,
                 activeTasks, taskDuration, storage, reqpc, reqTask, resp,
                 taskCtx, panicked, finalReport,
                 hAttempts, hEnqueued, hRejected, hDequeues, hInvoked,
                 hRecorded, hAtClose, hPhases, hForced, hOutcomes, callVars>>

(* ---- the not-processed store on its own: Service.mux, Service.storage -- *)
\* a Lock that never waits
TryLockAlways(m) == TRUE

\* s.mux.Lock() goes through when the mutex is unlocked
TryLock(m) == m = 0

\* Service.AddNotProcessedTask, first part: s.mux.Lock(); the map write
\* s.storage[taskID] = struct{}{} starts from the contents it finds
StoreAddBegin(c, taskID) ==
  /\ callpc[c] = "idle"
  /\ BagCardinality(hAdds) + Cardinality({d \in Callers : callpc[d] = "add"}) < MaxAdds
  /\ TryLock(mux)
  /\ mux' = c
  /\ callpc' = [callpc EXCEPT ![c] = "add"]
  /\ callarg' = [callarg EXCEPT ![c] = taskID]
  /\ callsnap' = [callsnap EXCEPT ![c] = storage]
  /\ UNCHANGED <<progVars, histVars, callret, hAdds>>

\* Service.AddNotProcessedTask, second part: the map write takes effect,
\* s.mux.Unlock() (deferred), return
StoreAddEnd(c) ==
  /\ callpc[c] = "add"
  /\ storage' = AddNotProcessedTask(callsnap[c], callarg[c])
  /\ mux' = IF mux = c THEN 0 ELSE mux
  /\ callpc' = [callpc EXCEPT ![c] = "idle"]
  /\ callarg' = [callarg EXCEPT ![c] = NoTask]
  /\ callsnap' = [callsnap EXCEPT ![c] = {}]
  /\ hAdds' = BagAdd(hAdds, callarg[c])
  /\ UNCHANGED <<mainpc, isShuttingDown, taskCounter, TaskQueue, queueClosed,
                 baseCtxDone, workerCtxDone, Wg, statusCounter, errorCounter,
                 activeTasks, taskDuration, reqpc, reqTask, resp,
                 wpc, wtask, taskCtx, panicked, finalReport, histVars, callret>>

\* Service.GetAllNotProcessedTasks, first part: s.mux.Lock()
StoreGetBegin(c) ==
  /\ callpc[c] = "idle"
  /\ TryLock(mux)
  /\ mux' = c
  /\ callpc' = [callpc EXCEPT ![c] = "get"]
  /\ UNCHANGED <<progVars, histVars, callarg, callsnap, callret, hAdds>>

\* Service.GetAllNotProcessedTasks, second part: the keys of the map are
\* copied, s.mux.Unlock() (deferred), return
StoreGetEnd(c) ==
  /\ callpc[c] = "get"
  /\ callret' = [callret EXCEPT ![c] = GetAllNotProcessedTasks(storage)]
  /\ mux' = IF mux = c THEN 0 ELSE mux
  /\ callpc' = [callpc EXCEPT ![c] = "idle"]
  /\ UNCHANGED <<progVars, histVars, callarg, callsnap, hAdds>>

\* the identities the callers record
StoreIDs == {FormatTaskID(n) : n \in 1..MaxRequests}

NextStore ==
  \E c \in Callers :
    \/ \E taskID \in StoreIDs : StoreAddBegin(c, taskID)
    \/ StoreAddEnd(c)
    \/ StoreGetBegin(c)
    \/ StoreGetEnd(c)

\* A Service after New, used by goroutines running at the same time
StoreSpec == Init /\ [][NextStore]_vars

(* ---- specification ---------------------------------------------------- *)
MainStep ==
  \/ DaemonStart \/ APIStart \/ Signal
  \/ Announce \/ DrainDelay \/ ServerShutdown
  \/ WorkerCancel \/ CloseQueue \/ moveNotProcessedTask \/ DrainEnd
  \/ JoinDone \/ JoinTimeout \/ logFinalMetrics

RequestStep(r) ==
  \/ SubmitCheck(r) \/ NewTaskID(r) \/ SubmitEnqueue(r)

WorkerStep(w) ==
  \/ WorkerCtxDone(w) \/ WorkerReceive(w) \/ WorkerQueueClosed(w)
  \/ AddActiveTasks(w) \/ WgAdd(w) \/ DeadlineFires(w)
  \/ (\E err \in {"nil", "CustomError", "DeadlineExceeded", "Canceled"} :
        GetSomethingReturn(w, err))
  \/ WgDone(w)

Next ==
  \/ MainStep
  \/ \E r \in Requests : RequestStep(r)
  \/ \E w \in Workers : WorkerStep(w)

Spec == Init /\ [][Next]_vars

\* A run in which no shutdown is started and the External Capability always
\* succeeds: main stays in its select, no deadline fires, every call returns
\* nil.  The worker goroutines are scheduled fairly.
WorkerStepNoFailure(w) ==
  \/ WorkerReceive(w) \/ AddActiveTasks(w) \/ WgAdd(w)
  \/ GetSomethingReturn(w, "nil")
  \/ WgDone(w)

NextNoShutdown ==
  \/ DaemonStart \/ APIStart
  \/ \E r \in Requests : RequestStep(r)
  \/ \E w \in Workers : WorkerStepNoFailure(w)

NoShutdownSpec ==
  /\ Init
  /\ [][NextNoShutdown]_vars
  /\ \A w \in Workers : WF_vars(WorkerStepNoFailure(w))

\* The main goroutine is never starved: each of its steps is runnable at once
\* or waits on a timer (time.After) that fires.
FairSpec == Spec /\ WF_vars(MainStep)

\* In addition no worker goroutine is starved.  A running call ends: the
\* capability returns, or the 3 s timer fires and it returns ctx.Err().
FairWorkersSpec ==
  Spec /\ WF_vars(MainStep) /\ \A w \in Workers : WF_vars(WorkerStep(w))

\* Daemon.Start(ctx, ...) takes its context from the caller, and a caller
\* may hand it one it can cancel (ctx, cancel := context.WithCancel(...)).
\* cancel() ends ctx and with it every context derived from it: the one
\* Start derives for the worker loops and the deadline contexts of the
\* running executions, whose Err() becomes context.Canceled.
CtxCancel ==
  /\ ~baseCtxDone
  /\ baseCtxDone' = TRUE
  /\ workerCtxDone' = TRUE
  /\ taskCtx' = [w \in Workers |->
                   IF taskCtx[w] = "live" THEN "Canceled" ELSE taskCtx[w]]
  /\ UNCHANGED <<mainpc, isShuttingDown, taskCounter, TaskQueue, queueClosed,
                 Wg, statusCounter, errorCounter,
                 activeTasks, taskDuration, storage, reqpc, reqTask, resp,
                 wpc, wtask, panicked, finalReport, histVars, callVars>>

NextCancellable == Next \/ CtxCancel

\* The daemon and the API started with a context their caller can cancel
CancellableSpec == Init /\ [][NextCancellable]_vars

\* A caller invokes d.Stop() once more after a call of it has returned
\* (sigHandler calls d.Stop for every signal it is handed): the statements
\* of Stop run again from d.workerCancel() on.
StopAgain ==
  /\ mainpc = "done"
  /\ mainpc' = "cancel"
  /\ UNCHANGED <<isShuttingDown, taskCounter, TaskQueue, queueClosed,
                 baseCtxDone, workerCtxDone, Wg, statusCounter, errorCounter,
                 activeTasks, taskDuration, storage, reqpc, reqTask, resp,
                 wpc, wtask, taskCtx, panicked, finalReport, histVars, callVars>>

NextRepeatStop == Next \/ StopAgain

\* The program with a caller that may call Stop again
RepeatStopSpec == Init /\ [][NextRepeatStop]_vars

\* A caller that builds the daemon with New and never calls d.Start: no
\* worker goroutine exists and d.workerCancel stays nil.
NoStart ==
  /\ mainpc = "start"
  /\ mainpc' = After("start")
  /\ UNCHANGED <<isShuttingDown, taskCounter, TaskQueue, queueClosed,
                 baseCtxDone, workerCtxDone, Wg, statusCounter, errorCounter,
                 activeTasks, taskDuration, storage, reqpc, reqTask, resp,
                 wpc, wtask, taskCtx, panicked, finalReport, histVars, callVars>>

\* The steps of the program when Start is skipped.  No worker step exists,
\* and Stop ends in its first statement, so its later statements are absent.
NextNoStart ==
  \/ NoStart \/ APIStart \/ Signal
  \/ Announce \/ DrainDelay \/ ServerShutdown
  \/ WorkerCancel
  \/ \E r \in Requests : RequestStep(r)

NoStartSpec == Init /\ [][NextNoStart]_vars

(* ======================================================================= *)
(* Properties                                                              *)
(* ======================================================================= *)
Min(a, b) == IF a < b THEN a ELSE b

IsPrefix(s, t) == Len(s) <= Len(t) /\ \A i \in 1..Len(s) : s[i] = t[i]

Accepted == SeqToSet(hEnqueued)
Invoked == BagToSet(hInvoked)
Recorded == BagToSet(hRecorded)
Held == {wtask[w] : w \in Workers} \ {NoTask}
Unavailable == {r \in Requests : resp[r] = StatusServiceUnavailable}
Attempts == Cardinality({r \in Requests : hAttempts[r] > 0})

\* the step of the state is SubmitTask's enqueue attempt by request r
EnqueueStepOf(r) == reqpc[r] = "send" /\ reqpc'[r] = "done"

\* C1 - Bounded admission: TaskQueue never holds more than queueSize tasks,
\* and an enqueue attempt made while it holds queueSize tasks is answered
\* 'unavailable' and leaves the queue as it was.
C1_BoundedAdmission ==
  /\ [](Len(TaskQueue) <= queueSize)
  /\ [][\A r \in Requests :
          EnqueueStepOf(r) /\ Len(TaskQueue) = queueSize /\ ~queueClosed
            => /\ resp'[r] = StatusServiceUnavailable
               /\ TaskQueue' = TaskQueue]_vars

\* C1 witness: the queue is full and an enqueue attempt was rejected for it
C1_Witness ==
  /\ Len(TaskQueue) = queueSize
  /\ hRejected # {}

C3_AtMostOnce ==
  \A id \in Invoked : CopiesIn(id, hInvoked) <= 1

\* C3 witness: two workers have each invoked GetSomething, for different tasks,
\* and both calls are still running
C3_Witness ==
  /\ Cardinality(Invoked) >= 2
  /\ \A w \in Workers : wpc[w] = "calling"

\* C4 - A request is answered 'accepted' exactly when its task was placed in
\* TaskQueue and 'unavailable' when the queue was full; a rejected request
\* leaves the queue unchanged and its identity never shows up in the queue,
\* with a worker, in an execution or in the not-processed store.  As long as
\* nothing has been dequeued, exactly the first queueSize attempts are accepted.
C4_AcceptedIffEnqueued ==
  /\ [](/\ hRejected \cap (SeqToSet(TaskQueue) \cup Held \cup Invoked
                            \cup storage \cup Accepted) = {}
        /\ Cardinality({r \in Requests : resp[r] = StatusAccepted}) = Len(hEnqueued)
        /\ (hDequeues = 0 /\ ~queueClosed => Len(hEnqueued) = Min(queueSize, Attempts)))
  /\ [][\A r \in Requests :
          EnqueueStepOf(r) /\ ~queueClosed
            => /\ resp'[r] = StatusAccepted
                  <=> TaskQueue' = Append(TaskQueue, reqTask[r])
               /\ resp'[r] = StatusServiceUnavailable
                  <=> Len(TaskQueue) = queueSize /\ TaskQueue' = TaskQueue
               /\ resp'[r] \in {StatusAccepted, StatusServiceUnavailable}]_vars

\* C4 witness: nothing dequeued yet, queueSize requests accepted, a later one rejected
C4_Witness ==
  /\ hDequeues = 0
  /\ Len(hEnqueued) = queueSize
  /\ Cardinality({r \in Requests : resp[r] = StatusAccepted}) = queueSize
  /\ \E r \in Requests : resp[r] = StatusServiceUnavailable /\ hAttempts[r] = 1

\* C5 - A SubmitTask that starts when isShuttingDown is already set answers
\* 'unavailable' in its first step, allocates no identity (taskCounter is
\* unchanged) and does not touch the queue.
C5_RejectWhenShuttingDown ==
  [][\A r \in Requests :
       reqpc[r] = "new" /\ reqpc'[r] # "new" /\ isShuttingDown
         => /\ reqpc'[r] = "done"
            /\ resp'[r] = StatusServiceUnavailable
            /\ reqTask'[r] = NoTask
            /\ hAttempts'[r] = 0
            /\ taskCounter' = taskCounter
            /\ TaskQueue' = TaskQueue]_vars

\* C5 witness: a request was turned away by the flag without an enqueue attempt
C5_Witness ==
  \E r \in Requests :
    /\ isShuttingDown
    /\ reqpc[r] = "done"
    /\ resp[r] = StatusServiceUnavailable
    /\ hAttempts[r] = 0

\* C6 - The unavailable (503) counter equals the number of 'unavailable'
\* responses returned, whether the queue was full or the daemon shutting down.
C6_UnavailableCounted ==
  GetUnavailableTotal = Cardinality(Unavailable)

\* C7 - Drain completeness: once the drain loop of Stop has ended, every task
\* that was in TaskQueue when it was closed has been recorded in the
\* not-processed store exactly once, was not taken by a worker, and is listed
\* by GetAllNotProcessedTasks.
C7_DrainCompleteness ==
  mainpc \in {"join", "report", "done"}
    => \A id \in hAtClose :
         /\ CopiesIn(id, hRecorded) = 1
         /\ id \in GetAllNotProcessedTasks(storage)
         /\ id \notin Held \cup Invoked

\* C8 - No identity is both passed to GetSomething and recorded as not-processed.
C8_ExecutedXorRecorded ==
  /\ Invoked \cap Recorded = {}
  /\ (Invoked \cup Held) \cap storage = {}

\* C8 witness: Stop has drained a task into the store while another was executed
C8_Witness ==
  /\ storage # {}
  /\ Invoked # {}
  /\ mainpc = "join"

\* the lifecycle states of an accepted task, read off the program state
Queued(id) == \E i \in 1..Len(TaskQueue) : TaskQueue[i] = id
InFlight(id) == \E w \in Workers : wtask[w] = id
Terminal(id) == id \in hTerminal
Persisted(id) == id \in storage

StatesOf(id) ==
  (IF Queued(id) THEN {"queued"} ELSE {})
    \cup (IF InFlight(id) THEN {"in-flight"} ELSE {})
    \cup (IF Terminal(id) THEN {"terminal"} ELSE {})
    \cup (IF Persisted(id) THEN {"persisted"} ELSE {})

\* C9 - Every accepted task is in exactly one of queued, in-flight, terminal,
\* persisted-not-processed (once in the queue, with one worker); a step moves
\* it only queued -> in-flight -> terminal or queued -> persisted; nothing is
\* put back into the queue.
C9_ExactlyOneState ==
  /\ [](\A id \in Accepted :
          /\ Cardinality(StatesOf(id)) = 1
          /\ Cardinality({i \in 1..Len(TaskQueue) : TaskQueue[i] = id}) <= 1
          /\ Cardinality({w \in Workers : wtask[w] = id}) <= 1)
  /\ [][\A id \in Accepted :
          \/ StatesOf(id)' = StatesOf(id)
          \/ StatesOf(id) = {"queued"} /\ StatesOf(id)' = {"in-flight"}
          \/ StatesOf(id) = {"in-flight"} /\ StatesOf(id)' = {"terminal"}
          \/ StatesOf(id) = {"queued"} /\ StatesOf(id)' = {"persisted"}]_vars

\* C9 witness: two accepted tasks, one executed to its end by a worker, the
\* other drained from the queue and persisted as not-processed
C9_Witness ==
  \E a, b \in Accepted :
    /\ Terminal(a)
    /\ Persisted(b)
    /\ StatesOf(a) = {"terminal"}
    /\ StatesOf(b) = {"persisted"}

PhaseDone(p) == \E i \in 1..Len(hPhases) : hPhases[i] = p

ShutdownPhases ==
  <<"announce", "delay", "cancel", "close", "drained", "join", "report">>

\* C10 - Shutdown is strictly ordered: flag set, drain delay, worker context
\* cancelled, queue closed and drained into the store, bounded join, final
\* accounting; each phase begins only when the one before it has finished.
C10_ShutdownOrder ==
  /\ IsPrefix(hPhases, ShutdownPhases)
  /\ (PhaseDone("delay") => isShuttingDown)
  /\ (workerCtxDone => PhaseDone("delay"))
  /\ (queueClosed => workerCtxDone)
  /\ (storage # {} => queueClosed)
  /\ (PhaseDone("drained") => queueClosed /\ TaskQueue = <<>>)
  /\ (finalReport # <<>> <=> PhaseDone("report"))

\* C10 witness: a shutdown that ran to the final accounting with a task
\* drained into the store and another executed
C10_Witness ==
  /\ finalReport # <<>>
  /\ finalReport.not_processed_tasks_count > 0
  /\ hTerminal # {}

\* C11 - When Stop cancels the worker context, the deadline context of every
\* execution in flight at that moment is cancelled (it is no longer live).
C11_CancelReachesInFlight ==
  [][~workerCtxDone /\ workerCtxDone'
       => \A w \in Workers : wpc[w] = "calling" => taskCtx'[w] # "live"]_vars

C13_Readiness ==
  /\ [](readinessHandler =
          IF PhaseDone("announce") THEN StatusServiceUnavailable ELSE StatusOK)
  /\ [][isShuttingDown => isShuttingDown']_vars

\* C13 witness: shutdown has run to its end, the queue is empty and the
\* readiness query still answers 'unhealthy'
C13_Witness ==
  /\ mainpc = "done"
  /\ TaskQueue = <<>>
  /\ readinessHandler = StatusServiceUnavailable

\* the call of worker w is running and the deadline of its context has fired
Expired(w) == wpc[w] = "calling" /\ taskCtx[w] = "DeadlineExceeded"

Issued ==
  ({reqTask[r] : r \in Requests} \ {NoTask}) \cup Accepted \cup hRejected

\* the number n of the identity "task-n"
TaskNum(id) == CHOOSE n \in 0..(MaxRequests + 1) : FormatTaskID(n) = id

\* C15 - Task identities are unique and strictly increasing: every NewTaskID
\* call, also one running next to another and one whose admission is rejected,
\* returns an identity different from all issued before and with a greater
\* number; an identity used by a rejected admission is not issued again.
C15_UniqueTaskIDs ==
  /\ [](/\ Cardinality(Issued) = taskCounter
        /\ \A r, q \in Requests :
             r # q /\ reqTask[r] # NoTask => reqTask[r] # reqTask[q]
        /\ \A i, j \in 1..Len(hEnqueued) : i # j => hEnqueued[i] # hEnqueued[j]
        /\ \A r \in Requests : reqTask[r] \notin Accepted \cup hRejected
        /\ Accepted \cap hRejected = {})
  /\ [][\A r \in Requests :
          reqpc[r] = "alloc" /\ reqpc'[r] = "send"
            => /\ reqTask'[r] \notin Issued
               /\ \A id \in Issued : TaskNum(reqTask'[r]) > TaskNum(id)]_vars

\* C15 witness: three handlers ran NewTaskID before any of them sent; the one
\* holding the first identity sent last and was rejected, the two identities
\* issued after it were accepted
C15_Witness ==
  /\ hRejected = {FormatTaskID(1)}
  /\ Accepted = {FormatTaskID(2), FormatTaskID(3)}
  /\ taskCounter = 3

\* the identities NewTaskID can issue within the bounds
TaskIDs == {FormatTaskID(n) : n \in 1..MaxRequests}

\* the number of IncSubmittedTasksTotal calls so far
SuccessTotal == GetLabel(statusCounter, "200")

\* C16 - Liveness without shutdown: with a capability that always succeeds
\* and workers scheduled fairly, every accepted task is eventually dequeued
\* and ends, and again and again the queue is empty with the success count
\* equal to the number of accepted tasks.
C16_EventuallyProcessed ==
  /\ \A id \in TaskIDs : (id \in Accepted) ~> (id \in hTerminal)
  /\ []<>(TaskQueue = <<>> /\ SuccessTotal = Len(hEnqueued))
  /\ [](SuccessTotal <= Len(hEnqueued))

\* C16 witness: more tasks accepted than there are workers, all of them
\* processed successfully, the queue empty
C16_Witness ==
  /\ Len(hEnqueued) = MaxRequests
  /\ MaxRequests > numWorkers
  /\ SuccessTotal = MaxRequests
  /\ TaskQueue = <<>>
  /\ hTerminal = Accepted

\* C17 - A task accepted and drained to the store without being dequeued adds
\* nothing to submitted_tasks_total, task_errors_total or timeouts_total: when
\* tasks were queued, none was dequeued and shutdown ran to its end, the final
\* snapshot reports 0 submitted, 0 errors, 0 timeouts and lists exactly the
\* queued identities.
C17_DrainedNotCounted ==
  mainpc = "done" /\ hDequeues = 0 /\ Accepted # {}
    => /\ finalReport.submitted_tasks_total = 0
       /\ finalReport.task_errors_total = 0
       /\ finalReport.timeouts_total = 0
       /\ finalReport.not_processed_tasks = Accepted
       /\ finalReport.not_processed_tasks_count = Cardinality(Accepted)

\* C18 - Queue close semantics: once Stop has closed TaskQueue nothing is added
\* to it; no handler is at (or on its way to) its enqueue step when the queue
\* is closed, so no send on the closed queue occurs and no request fails:
\* every request that has ended was answered 'accepted' or 'unavailable'.
C18_NoSendAfterClose ==
  /\ [](/\ ~panicked
        /\ (queueClosed => \A r \in Requests : ~HandlerActive(r))
        /\ \A r \in Requests :
             reqpc[r] = "done"
               => resp[r] \in {StatusAccepted, StatusServiceUnavailable})
  /\ [][queueClosed
         => /\ hEnqueued' = hEnqueued
            /\ \/ TaskQueue' = TaskQueue
               \/ TaskQueue # <<>> /\ TaskQueue' = Tail(TaskQueue)
            /\ resp' = resp]_vars

\* C18 witness: a request that arrived during the shutdown sequence was
\* answered 'unavailable', and Stop has closed the queue with a task in it
C18_Witness ==
  /\ queueClosed
  /\ hAtClose # {}
  /\ \E r \in Requests : resp[r] = StatusServiceUnavailable /\ hAttempts[r] = 0

\* the identities whose AddNotProcessedTask call has returned
Added == BagToSet(hAdds)

\* C19 - Persistent Store visibility: a GetAllNotProcessedTasks that returns
\* lists every identity whose AddNotProcessedTask had returned, and leaves
\* the stored set as it was; the store holds exactly the identities added,
\* each once however often it was recorded; calls running at the same time
\* lose none.
C19_StoreVisibility ==
  /\ [](/\ Added \subseteq GetAllNotProcessedTasks(storage)
        /\ GetAllNotProcessedTasks(storage)
             \subseteq Added \cup {callarg[c] : c \in Callers}
        /\ Cardinality(GetAllNotProcessedTasks(storage)) <= BagCardinality(hAdds))
  /\ [][\A c \in Callers :
          /\ callpc[c] = "get" /\ callpc'[c] = "idle"
               => /\ Added \subseteq callret'[c]
                  /\ callret'[c] \subseteq Added
                  /\ storage' = storage
          /\ callpc[c] = "add" /\ callpc'[c] = "idle"
               => /\ storage' = storage \cup {callarg[c]}
                  /\ (callarg[c] \in storage => storage' = storage)]_vars

\* C19 witness: three AddNotProcessedTask calls by two callers have returned,
\* two of them for the same identity; the store holds two identities and a
\* later GetAllNotProcessedTasks returned both
C19_Witness ==
  /\ BagCardinality(hAdds) = 3
  /\ \E id \in Added : CopiesIn(id, hAdds) = 2
  /\ Cardinality(storage) = 2
  /\ \E c \in Callers : callret[c] = storage
  /\ \E c, d \in Callers : c # d /\ callret[c] # callret[d]

\* the identities that have left TaskQueue, in a worker's hands or drained
Removed == Accepted \ SeqToSet(TaskQueue)

\* C20 - FIFO delivery: the tasks still queued are the most recently
\* enqueued ones in their enqueue order, so a task enqueued before another
\* has left the queue whenever the other has; every removal, by a worker or
\* by the drain, takes the oldest queued task.  Completion order is free.
C20_FifoDelivery ==
  /\ [](/\ Len(TaskQueue) <= Len(hEnqueued)
        /\ TaskQueue = SubSeq(hEnqueued, Len(hEnqueued) - Len(TaskQueue) + 1,
                              Len(hEnqueued))
        /\ \A i, j \in 1..Len(hEnqueued) :
             i < j /\ hEnqueued[j] \in Removed => hEnqueued[i] \in Removed)
  /\ [][Len(TaskQueue') < Len(TaskQueue)
         => /\ TaskQueue' = Tail(TaskQueue)
            /\ \/ \E w \in Workers : /\ wtask[w] = NoTask
                                      /\ wtask'[w] = Head(TaskQueue)
               \/ hRecorded' = BagAdd(hRecorded, Head(TaskQueue))]_vars

\* C20 witness: three tasks were enqueued; the first is still with a worker,
\* the second, received after it, has already ended, and the third was
\* removed by the drain
C20_Witness ==
  /\ Len(hEnqueued) = 3
  /\ TaskQueue = <<>>
  /\ \E w \in Workers : wtask[w] = hEnqueued[1] /\ wpc[w] = "calling"
  /\ hEnqueued[1] \notin hTerminal
  /\ hEnqueued[2] \in hTerminal
  /\ hEnqueued[3] \in DOMAIN hRecorded
  /\ hEnqueued[3] \in storage

\* the step ends worker w's call of the External Capability
OutcomeStepOf(w) == wpc[w] = "calling" /\ wpc'[w] = "deferred"

\* what admission reads and writes: the gate, the queue, the handlers' state
\* and the counters of the responses
admissionVars ==
  <<isShuttingDown, taskCounter, TaskQueue, queueClosed, reqpc, reqTask, resp,
    GetLabel(statusCounter, "202"), GetLabel(statusCounter, "503")>>

\* C21 - Admission decoupled from execution: a response once given never
\* changes; the response a handler gives is a function of the gate and of
\* the room in the queue at that moment; and the end of an execution,
\* whatever outcome the External Capability returns, and the expiry of a
\* deadline leave everything admission reads or writes as it was and move
\* the worker to the same point, so runs that differ only in the outcomes
\* give every SubmitTask the same response.
C21_AdmissionDecoupled ==
  /\ [][\A r \in Requests : resp[r] # 0 => resp'[r] = resp[r]]_vars
  /\ [][\A r \in Requests :
          resp[r] = 0 /\ resp'[r] # 0
            => resp'[r] = IF reqpc[r] = "new" \/ Len(TaskQueue) >= queueSize
                            THEN StatusServiceUnavailable ELSE StatusAccepted]_vars
  /\ [][\A w \in Workers :
          OutcomeStepOf(w) \/ (taskCtx[w] = "live" /\ taskCtx'[w] = "DeadlineExceeded")
            => /\ admissionVars' = admissionVars
               /\ UNCHANGED <<mainpc, Wg, wtask, storage, workerCtxDone>>
               /\ \A v \in Workers :
                    wpc'[v] = IF v = w /\ wpc[v] = "calling" /\ taskCtx'[v] = "none"
                                THEN "deferred" ELSE wpc[v]]_vars

\* C21 witness: three requests were accepted; one task ended in success, one
\* in a business error and one in a timeout, and the three responses stand
C21_Witness ==
  /\ \A r \in Requests : resp[r] = StatusAccepted
  /\ GetLabel(statusCounter, "200") = 1
  /\ GetLabel(errorCounter, "error") = 1
  /\ GetLabel(errorCounter, "timeout") = 1
  /\ Cardinality(hTerminal) = 3

\* the three outcome counters
ErrorsTotal == GetLabel(errorCounter, "error")
TimeoutsTotal == GetLabel(errorCounter, "timeout")
OutcomeCounters == <<SuccessTotal, ErrorsTotal, TimeoutsTotal>>

\* the outcome counters after one execution more has returned err
Classified(err) ==
  <<SuccessTotal + (IF err = "nil" THEN 1 ELSE 0),
    ErrorsTotal + (IF err = "CustomError" THEN 1 ELSE 0),
    TimeoutsTotal + (IF err \in {"DeadlineExceeded", "Canceled"} THEN 1 ELSE 0)>>

\* C22 - Outcome classification: the success counter holds the number of
\* executions that returned nil, the task-error counter those that returned
\* a CustomError, the timeout counter those that returned DeadlineExceeded
\* or Canceled; the step that ends an execution adds one to exactly the
\* counter of its result and leaves the other counters, those of the
\* responses included, as they were; every execution begun has ended with
\* one such step or is still running.
C22_OutcomeClassification ==
  /\ [](/\ SuccessTotal = CopiesIn("nil", hOutcomes)
        /\ ErrorsTotal = CopiesIn("CustomError", hOutcomes)
        /\ TimeoutsTotal = CopiesIn("DeadlineExceeded", hOutcomes)
                             + CopiesIn("Canceled", hOutcomes)
        /\ BagCardinality(hInvoked)
             = SuccessTotal + ErrorsTotal + TimeoutsTotal
               + Cardinality({w \in Workers : wpc[w] = "calling"})
        /\ DOMAIN errorCounter \subseteq {"error", "timeout"})
  /\ [][\A w \in Workers :
          OutcomeStepOf(w)
            => /\ \E err \in Results(taskCtx[w]) :
                    /\ hOutcomes' = BagAdd(hOutcomes, err)
                    /\ OutcomeCounters' = Classified(err)
               /\ GetLabel(statusCounter', "202") = GetLabel(statusCounter, "202")
               /\ GetLabel(statusCounter', "503") = GetLabel(statusCounter, "503")]_vars
  /\ [][OutcomeCounters' # OutcomeCounters
          => \E w \in Workers : OutcomeStepOf(w)]_vars

\* C22 witness: three executions have ended, one with a business error, one
\* with DeadlineExceeded and one with Canceled, each counted once
C22_Witness ==
  /\ CopiesIn("CustomError", hOutcomes) = 1
  /\ CopiesIn("DeadlineExceeded", hOutcomes) = 1
  /\ CopiesIn("Canceled", hOutcomes) = 1
  /\ OutcomeCounters = <<0, 1, 2>>

\* C23 - No task begun after cancellation: once Stop has cancelled the worker
\* context, a worker at its select does not receive a task from TaskQueue
\* (and so starts no further call of the External Capability).
C23_NoTaskAfterCancel ==
  [][\A w \in Workers :
       workerCtxDone /\ wpc[w] = "wait" => wpc'[w] # "dequeued"]_vars

\* C24 - Bounded join soundness: when the join of Stop has completed through
\* Wg.Wait and not through the time bound, no worker holds a task: every task
\* a worker dequeued has reached its terminal outcome before the final
\* accounting.
C24_JoinSound ==
  mainpc \in {"report", "done"} /\ ~hForced => Held = {}

\* the step is the join of Stop leaving through its time bound
ForcedExitStep == mainpc = "join" /\ Wg > 0 /\ mainpc' # mainpc

\* C25 - Forced-exit loss: when the time bound of the join elapses with work
\* still registered, Stop goes on to the final accounting without touching
\* the queue, the store or the workers; from then on a task a worker holds
\* or has finished is never in TaskQueue again, is executed at most once and
\* is neither in the not-processed store nor in the list the final report
\* gives.
C25_ForcedExitLoss ==
  /\ [](hForced
         => \A id \in Held \cup hTerminal :
              /\ ~Queued(id)
              /\ CopiesIn(id, hInvoked) <= 1
              /\ CopiesIn(id, hRecorded) = 0
              /\ id \notin storage
              /\ (finalReport # <<>> => id \notin finalReport.not_processed_tasks))
  /\ [](mainpc = "report" => ENABLED logFinalMetrics)
  /\ [][ForcedExitStep
          => /\ mainpc' = "report"
             /\ hForced'
             /\ Held' = Held
             /\ Held # {}
             /\ UNCHANGED <<TaskQueue, storage, wpc, wtask, hInvoked, hRecorded>>]_vars

\* C25 witness: the join was left through the time bound, the final report
\* was emitted, and a worker is still inside the call for a task that is in
\* neither the queue nor the store, while a drained task is in the store
C25_Witness ==
  /\ hForced
  /\ mainpc = "done"
  /\ finalReport # <<>>
  /\ \E w \in Workers : wpc[w] = "calling" /\ wtask[w] \notin storage
  /\ storage # {}

\* the workers whose task is recorded active: AddActiveTasks has run for it
\* and the deferred DecActiveTasks has not
Active == {w \in Workers : wpc[w] \in {"counted", "calling"}}

\* C26 - Active-task gauge: the gauge holds the number of tasks whose
\* execution is under way, never goes below 0, never exceeds the number of
\* tasks the workers hold and is 0 when no worker holds a task; for each task
\* it goes up by one before the External Capability is called and down by
\* one when the call has ended, whatever its result; no other step moves it.
C26_ActiveGauge ==
  /\ [](/\ activeTasks = Cardinality(Active)
        /\ activeTasks >= 0
        /\ activeTasks <= Cardinality(Held)
        /\ (Held = {} => activeTasks = 0)
        /\ activeTasks + BagCardinality(hOutcomes)
             = hDequeues - Cardinality({w \in Workers : wpc[w] = "dequeued"}))
  /\ [][\A w \in Workers :
          /\ wpc[w] = "dequeued" /\ wpc'[w] # wpc[w]
               => activeTasks' = activeTasks + 1 /\ hInvoked' = hInvoked
          /\ OutcomeStepOf(w) => activeTasks' = activeTasks - 1]_vars
  /\ [][activeTasks' # activeTasks
          => \E w \in Workers : wpc[w] = "dequeued" \/ OutcomeStepOf(w)]_vars
  /\ [](\A w \in Workers :
          wpc[w] = "calling"
            => \A err \in Results(taskCtx[w]) : ENABLED GetSomethingReturn(w, err))

\* C26 witness: three executions have ended, one in success, one in a
\* business error or a timeout and one in a cancellation, and the gauge is
\* back at 0 with no task held
C26_Witness ==
  /\ CopiesIn("nil", hOutcomes) = 1
  /\ CopiesIn("CustomError", hOutcomes) + CopiesIn("DeadlineExceeded", hOutcomes) = 1
  /\ CopiesIn("Canceled", hOutcomes) = 1
  /\ Held = {}
  /\ activeTasks = 0

\* the worker loops launched so far, and those that are running a task
Launched == {w \in Workers : wpc[w] # "notstarted"}
Executing == {w \in Workers : wpc[w] \in {"dequeued", "counted", "calling", "deferred"}}

\* C27 - Fixed pool of N: before Start no worker loop runs, from Start on
\* exactly numWorkers have been launched, all of them by Start; a worker
\* receives a task only at its select, holding none, so the tasks in flight,
\* the registrations with Wg and the gauge never exceed numWorkers.
C27_FixedPool ==
  /\ [](/\ Cardinality(Launched) = IF mainpc = "start" THEN 0 ELSE numWorkers
        /\ Held = {wtask[w] : w \in Executing}
        /\ Cardinality(Held) = Cardinality(Executing)
        /\ Cardinality(Held) <= numWorkers
        /\ Wg \in 0..numWorkers
        /\ activeTasks \in 0..numWorkers
        /\ hDequeues - Cardinality(hTerminal) <= numWorkers)
  /\ [][Launched' # Launched
          => mainpc = "start" /\ mainpc' # mainpc /\ Launched' = Workers]_vars
  /\ [][\A w \in Workers :
          wtask'[w] # wtask[w] /\ wtask'[w] # NoTask
            => wpc[w] = "wait" /\ wtask[w] = NoTask]_vars

\* C27 witness: every worker is inside a call of the External Capability
\* and a further accepted task waits in the queue
C27_Witness ==
  /\ \A w \in Workers : wpc[w] = "calling"
  /\ Wg = numWorkers
  /\ TaskQueue # <<>>

\* C28 - Task duration samples: the histogram holds one sample for every
\* execution that has ended, whatever its result, and none besides: the step
\* that ends an execution observes exactly one sample, no other step
\* observes any, the drain in particular, and a task recorded as not
\* processed is never executed.
C28_DurationSamples ==
  /\ [](/\ taskDuration = BagCardinality(hOutcomes)
        /\ taskDuration
             = Cardinality(hTerminal)
               + Cardinality({w \in Workers : wpc[w] = "deferred"})
        /\ taskDuration <= BagCardinality(hInvoked)
        /\ Recorded \cap Invoked = {})
  /\ [][\A w \in Workers :
          OutcomeStepOf(w) => taskDuration' = taskDuration + 1]_vars
  /\ [][taskDuration' # taskDuration
          => /\ \E w \in Workers : OutcomeStepOf(w)
             /\ hRecorded' = hRecorded]_vars
  /\ [][hRecorded' # hRecorded => taskDuration' = taskDuration]_vars

\* C28 witness: one execution ended in a business error and one in a
\* cancellation, a third task was drained into the store, and the histogram
\* holds two samples
C28_Witness ==
  /\ CopiesIn("CustomError", hOutcomes) = 1
  /\ CopiesIn("Canceled", hOutcomes) = 1
  /\ Cardinality(Recorded) = 1
  /\ Cardinality(hTerminal) = 2
  /\ taskDuration = 2

\* the step is the expiry of the deadline of worker w's execution
DeadlineStepOf(w) == taskCtx[w] = "live" /\ taskCtx'[w] = "DeadlineExceeded"

\* C29 - Independent deadlines: the expiry of one execution's deadline
\* leaves the context of every other execution, the workers' shared context
\* and the context given to Start as they were, and moves no worker; an
\* execution whose own context is live can still end in success while
\* another one has expired.
C29_IndependentDeadlines ==
  /\ [][\A w \in Workers :
          DeadlineStepOf(w)
            => /\ \A v \in Workers \ {w} : taskCtx'[v] = taskCtx[v]
               /\ UNCHANGED <<workerCtxDone, baseCtxDone, wpc, wtask, TaskQueue>>]_vars
  /\ [](\A w, v \in Workers :
          Expired(w) /\ wpc[v] = "calling" /\ taskCtx[v] = "live"
            => ENABLED GetSomethingReturn(v, "nil"))

\* C29 witness: the deadline of one execution has expired while another
\* execution, begun before the expiry, runs on with a live context and the
\* workers' context is not cancelled
C29_Witness ==
  \E w, v \in Workers :
    /\ Expired(w)
    /\ wpc[v] = "calling"
    /\ taskCtx[v] = "live"
    /\ ~workerCtxDone

\* counter vector v is nowhere above counter vector u
CounterLeq(v, u) ==
  /\ DOMAIN v \subseteq DOMAIN u
  /\ \A l \in DOMAIN v : v[l] <= u[l]

\* the counters of the final report
ReportedCounters ==
  <<finalReport.submitted_tasks_total, finalReport.unavailable_total,
    finalReport.task_errors_total, finalReport.timeouts_total>>

\* C30 - Monotonic counters: no step of admission, execution or shutdown
\* lowers or removes a label of the response counter (accepted 202,
\* unavailable 503, processed 200) or of the error counter (error, timeout);
\* a step raises them by at most one in all, and the counters stay at or
\* above the values the final report gave.
C30_MonotonicCounters ==
  /\ [][/\ CounterLeq(statusCounter, statusCounter')
         /\ CounterLeq(errorCounter, errorCounter')
         /\ GetSubmittedTasksTotal' >= GetSubmittedTasksTotal
         /\ GetUnavailableTotal' >= GetUnavailableTotal
         /\ SuccessTotal' >= SuccessTotal
         /\ GetTaskErrorsTotal' >= GetTaskErrorsTotal
         /\ GetTimeoutsTotal' >= GetTimeoutsTotal
         /\ (GetSubmittedTasksTotal' + GetUnavailableTotal' + SuccessTotal'
               + GetTaskErrorsTotal' + GetTimeoutsTotal')
              - (GetSubmittedTasksTotal + GetUnavailableTotal + SuccessTotal
                  + GetTaskErrorsTotal + GetTimeoutsTotal) \in {0, 1}]_vars
  /\ [](finalReport # <<>>
         => /\ GetSubmittedTasksTotal >= ReportedCounters[1]
            /\ GetUnavailableTotal >= ReportedCounters[2]
            /\ GetTaskErrorsTotal >= ReportedCounters[3]
            /\ GetTimeoutsTotal >= ReportedCounters[4])

\* C30 witness: after two admissions, one rejection, an execution that
\* failed and the shutdown with its final report, a late execution ends in a
\* timeout: the timeout counter is above the reported value, the others kept
C30_Witness ==
  /\ finalReport # <<>>
  /\ GetSubmittedTasksTotal = 2
  /\ GetUnavailableTotal = 1
  /\ GetTaskErrorsTotal = 1
  /\ GetTimeoutsTotal = 1
  /\ ReportedCounters = <<2, 1, 1, 0>>

\* the identities workers have received from TaskQueue
Dequeued == Held \cup hTerminal

\* C31 - No accepted task stranded: from the end of the drain on, and so
\* once Stop has returned, TaskQueue is empty and stays empty, and every
\* accepted task was either received by one worker, once, or recorded in
\* the not-processed store, never both; this includes a task enqueued after
\* the announcement by a handler that had read the flag before it.
C31_NoTaskStranded ==
  /\ [](mainpc \in {"join", "report", "done"}
         => /\ TaskQueue = <<>>
            /\ Accepted = Dequeued \cup storage
            /\ Dequeued \cap storage = {}
            /\ hDequeues = Cardinality(Dequeued)
            /\ \A w, v \in Workers :
                 w # v /\ wtask[w] # NoTask => wtask[w] # wtask[v]
            /\ \A r \in Requests : reqpc[r] # "send")
  /\ [][\A r \in Requests :
          EnqueueStepOf(r) /\ isShuttingDown
            => mainpc \in {"delay", "shutdown"} /\ ~queueClosed]_vars

\* C31 witness: Stop has returned; of three accepted tasks one was received
\* by a worker before the shutdown, one by a worker after the queue was
\* closed and one was recorded in the store
C31_Witness ==
  /\ mainpc = "done"
  /\ Len(hEnqueued) = 3
  /\ Cardinality(hAtClose) = 2
  /\ Cardinality(storage) = 1
  /\ Cardinality(Dequeued) = 2

\* C32 - Accounting conservation: when Stop emits the final accounting after
\* a join that was not left through the time bound, the number of accepted
\* tasks equals the successes plus the task errors plus the timeouts plus
\* the identities in the not-processed store (the successes being read from
\* the counter the executions increment).
C32_AccountingConservation ==
  [][mainpc = "report" /\ mainpc' = "done" /\ ~hForced
       => Len(hEnqueued)
            = SuccessTotal + GetTaskErrorsTotal + GetTimeoutsTotal
              + Cardinality(GetAllNotProcessedTasks(storage))]_vars

\* C33 - Store holds accepted identities only: every identity in the
\* not-processed store was accepted into TaskQueue and was still buffered
\* when the queue was closed; no identity of a rejected admission is in it;
\* and the store is empty as long as Stop has not closed the queue.
C33_StoreOnlyAccepted ==
  /\ storage \subseteq Accepted
  /\ storage \subseteq hAtClose
  /\ storage \cap hRejected = {}
  /\ Recorded = storage
  /\ (~queueClosed => storage = {})

\* C33 witness: one admission was rejected on a full queue, the queue was
\* closed with two tasks buffered and both are in the store
C33_Witness ==
  /\ hRejected # {}
  /\ queueClosed
  /\ Cardinality(storage) = 2
  /\ storage = hAtClose

\* C34 - Workers exit after Stop: once Stop has cancelled the worker context
\* and closed the queue, every worker loop ends, given that the worker
\* goroutines are scheduled and every running call returns; a worker at its
\* select can then always leave, so none waits for a task forever.
C34_WorkersExit ==
  /\ (workerCtxDone /\ queueClosed) ~> (\A w \in Workers : wpc[w] = "exited")
  /\ [](\A w \in Workers :
          workerCtxDone /\ queueClosed /\ wpc[w] = "wait"
            => ENABLED WorkerCtxDone(w) /\ (TaskQueue = <<>> => ENABLED WorkerQueueClosed(w)))
  /\ [][\A w \in Workers : wpc[w] = "exited" => wpc'[w] = "exited"]_vars

\* C34 witness: the queue is closed and every worker has exited, one of
\* them after a call that was still running when Stop left its join
C34_Witness ==
  /\ workerCtxDone
  /\ queueClosed
  /\ \A w \in Workers : wpc[w] = "exited"
  /\ hForced
  /\ hTerminal # {}

\* the number of times Stop has run d.workerCancel()
StopCalls == Cardinality({i \in 1..Len(hPhases) : hPhases[i] = "cancel"})

\* C35 - Stop is repeatable: a call of Stop made after a first call has
\* returned does not fail, and it leaves the not-processed store and the
\* counters as the first call left them.
C35_StopRepeatable ==
  StopCalls >= 2 => ~panicked /\ mainpc # "panic"

\* C36 - Stop on a daemon that was never started: Stop called after New and
\* some accepted submissions, without a prior Start, completes, and every
\* task that was queued is then in the not-processed store.
C36_StopWithoutStart ==
  (workerCancelNil /\ Accepted # {}) =>
    /\ ~panicked
    /\ mainpc # "panic"
    /\ (mainpc \in {"join", "report", "done"} => TaskQueue = <<>> /\ Accepted \subseteq storage)

\* the workers between d.Wg.Add(1) and the deferred d.Wg.Done()
Joined == {w \in Workers : wpc[w] \in {"calling", "deferred"}}
WgAddStepOf(w) == wpc[w] = "counted" /\ wpc'[w] # "counted"
WgDoneStepOf(w) == wpc[w] \in {"calling", "deferred"} /\ wpc'[w] \notin {"calling", "deferred"}

\* C37 - Join counter discipline: the join counter equals the number of
\* tasks between Wg.Add(1) and Wg.Done() and is never negative; a task
\* enters its execution only through one Wg.Add(1), leaves it, whatever the
\* result of the call, only through one Wg.Done() made after the result is
\* recorded, nothing else moves the counter, and every finished task was
\* added exactly once.
C37_JoinCounterDiscipline ==
  /\ [](Wg = Cardinality(Joined) /\ Wg >= 0)
  /\ [](\A id \in hTerminal : CopiesIn(id, hInvoked) = 1)
  /\ [][\A w \in Workers :
          /\ WgAddStepOf(w) => Wg' = Wg + 1 /\ wpc'[w] = "calling"
          /\ OutcomeStepOf(w) => Wg' = Wg
          /\ WgDoneStepOf(w) => Wg' = Wg - 1 /\ wpc[w] = "deferred"
                                 /\ wtask[w] \in hTerminal' \ hTerminal]_vars
  /\ [][Wg' # Wg => \E w \in Workers : WgAddStepOf(w) \/ WgDoneStepOf(w)]_vars

\* two tasks have left their executions, one by a capability error and one
\* by an expired deadline, and the counter is back at 0
C37_Witness ==
  /\ Wg = 0
  /\ Cardinality(hTerminal) >= 2
  /\ {"CustomError", "DeadlineExceeded"} \subseteq BagToSet(hOutcomes)

\* the workers whose execution has recorded its result and has yet to call
\* the deferred d.Wg.Done()
Signalling == {w \in Workers : wpc[w] = "deferred"}
TimedOut == CopiesIn("DeadlineExceeded", hOutcomes) + CopiesIn("Canceled", hOutcomes)
ReportStep == mainpc = "report" /\ mainpc' # "report"

====
